---- MODULE Spec2Model ----
(***************************************************************************)
(* Model of src/src/api.js: the data-access facade of web-admin.  Every    *)
(* exported function builds one request against one table of the remote    *)
(* store, awaits it, and maps the {data, error} pair to a return value or  *)
(* a raised error.  The store executes each request atomically, and every  *)
(* handler issues a single request, so a handler is one action whose       *)
(* effect on the store is the effect of its request.                       *)
(*                                                                         *)
(* Objects (rows, payloads) are functions from field names to values; a    *)
(* field that is not set is not in the DOMAIN.  Strings that the code      *)
(* transforms character by character (emails, item names) are sequences of *)
(* one-letter strings.                                                     *)
(*                                                                         *)
(* The store is the collaborator behind the supabase client; it is         *)
(* modelled by what the client's calls do: eq, ilike, order, limit,        *)
(* single, insert, update, delete, upsert.  Two facts about the tables are *)
(* not fixed by api.js and are left open in schema: whether employees has  *)
(* a pin column (a payload naming a column the table lacks is refused),    *)
(* and whether tasks enforces unique task_id values.                       *)
(*                                                                         *)
(* last is the call completed by the latest step, with what the store      *)
(* reported and what the caller got; it is cleared when time passes        *)
(* without a call.  focus is the table a behaviour works on: no operation  *)
(* reads or writes two tables, so behaviours are analysed table by table.  *)
(***************************************************************************)
EXTENDS Integers, Sequences, FiniteSets, TLC

VARIABLES employees, items, history, tasks, settings, nextId, now, schema,
          focus, last

vars == <<employees, items, history, tasks, settings, nextId, now, schema,
          focus, last>>

stores == <<employees, items, history, tasks, settings, nextId>>

(* ------------------------------ bounds --------------------------------- *)

\* rows a table's id sequence hands out
MaxRows == 2
\* last value of the millisecond clock
MaxClock == 1
\* largest threshold a caller sets
MaxThreshold == 5

(* ------------------------------ inputs --------------------------------- *)

Emails == { <<"a">>, <<"A", " ">> }
Pins == { "", "1234" }
\* what a caller types at the login form
LoginEmails == Emails \cup { <<" ", "a">>, <<"b">> }
Names == { <<"W", "i">> }
Thresholds == 0..MaxThreshold
Ids == 1..MaxRows
Times == 0..MaxClock
Tables == { "employees", "items", "history", "tasks", "settings" }
\* ids of employees and items that tasks and history rows refer to
EmployeeIds == { 1, 2 }
ItemIds == { 1, 2 }


\* a hash a caller passes along in the record it updates with
GivenHashes == { "mvFbM25qlhmShTffMLLmojdlafz51+dz7M7eZWBlKaA=" }

NewEmployees ==
  [email : Emails, pin : Pins] \cup [email : Emails]

EmployeeUpdates ==
  [id : Ids, email : Emails]
    \cup [id : Ids, pin : Pins]
    \cup [id : Ids, pin_hash : GivenHashes]
    \cup [id : Ids, pin : Pins, pin_hash : GivenHashes]


\* an item may bring its own created_at along (here: the epoch)
NewItems ==
  [name : Names] \cup [name : Names, created_at : { 0 }]

ItemUpdates ==
  [id : Ids, name : Names] \cup [id : Ids, created_at : Times]

Queries == { <<"w">>, <<"G", "a">> }

\* the rows other clients of the store have written to history
RecordedHistory ==
  { [id |-> i, item_id |-> 1, employee_id |-> IF i = 1 THEN 1 ELSE 2,
     created_at |-> 0] : i \in Ids }

HistoryFilters ==
  { <<>> } \cup [itemId : ItemIds] \cup [employeeId : EmployeeIds]
    \cup [itemId : ItemIds, employeeId : EmployeeIds]

HistoryUpdates == [id : Ids, item_id : ItemIds]

\* "TASK" followed by the millisecond clock
TaskId(ms) == "TASK" \o ToString(ms)

TaskIds == { TaskId(t) : t \in Times } \cup { "TASK123" }

NewTasks ==
  [employee_id : EmployeeIds]
    \cup [employee_id : EmployeeIds, task_id : { "TASK123" }]

TaskUpdates == [task_id : TaskIds, employee_id : EmployeeIds]

LOW_STOCK_THRESHOLD == "LOW_STOCK_THRESHOLD"

(* --------------------------- JS primitives ----------------------------- *)

\* { ...a, ...b }: the fields of b override those of a
Spread(a, b) ==
  [f \in (DOMAIN a) \cup (DOMAIN b) |-> IF f \in DOMAIN b THEN b[f] ELSE a[f]]

\* obj.f, with "" standing for undefined where the code only tests or hashes it
Field(obj, f, undef) == IF f \in DOMAIN obj THEN obj[f] ELSE undef

\* CryptoJS.SHA256(pin).toString(Base64); an undefined or empty message
\* appends nothing, so both give the digest of the empty message
hashPin(pin) ==
  CASE pin = ""     -> "47DEQpj8HBSa+/TImW+5JCeuQeRkm5NMpJWZG3hSuFU="
    [] pin = "1234" -> "A6xnQhbz4Vx2HuGl4lXwZ5U2I8iziLRFnhP5eNfIRvQ="
    [] pin = "0000" -> "mvFbM25qlhmShTffMLLmojdlafz51+dz7M7eZWBlKaA="

lowerChar(c) ==
  CASE c = "A" -> "a"
    [] c = "B" -> "b"
    [] OTHER   -> c

toLowerCase(s) == [i \in 1..Len(s) |-> lowerChar(s[i])]

RECURSIVE trimStart(_)
trimStart(s) ==
  IF s # <<>> /\ Head(s) = " " THEN trimStart(Tail(s)) ELSE s

RECURSIVE trimEnd(_)
trimEnd(s) ==
  IF s # <<>> /\ s[Len(s)] = " " THEN trimEnd(SubSeq(s, 1, Len(s) - 1)) ELSE s

trim(s) == trimEnd(trimStart(s))

\* the clock read by a later new Date() in the same synchronous block
LaterReads(t) == { u \in Times : t <= u /\ u <= t + 1 }

(* ------------------------- results and errors -------------------------- *)

NoError == "none"
\* errors the store reports on its own account (transport, constraint, ...)
Faults == { "FETCH_FAILED" }
MaybeFault == Faults \cup { NoError }
NotSingle == "PGRST116"
NoColumn == "PGRST204"
Duplicate == "23505"

Throw(e) == [kind |-> "throw", value |-> e]
Return(v) == [kind |-> "return", value |-> v]
ReturnNull == [kind |-> "null"]
Success == [success |-> TRUE]

\* a handler that raises an error of its own instead of the store's
ThrowOr_Generic(error, v) ==
  IF error # NoError THEN Throw("REQUEST_FAILED") ELSE Return(v)

\* throw error on error, the value otherwise
ThrowOr(error, v) == IF error # NoError THEN Throw(error) ELSE Return(v)

Call(op, input, error, outcome) ==
  [op |-> op, input |-> input, trips |-> 1, error |-> error,
   outcome |-> outcome]

(* ------------------------------ the store ------------------------------ *)

Columns(t) ==
  CASE t = "employees" ->
         { "id", "email", "pin_hash", "created_at", "updated_at" }
           \cup (IF schema.pinColumn THEN { "pin" } ELSE {})
    [] t = "items"     -> { "id", "name", "created_at", "updated_at" }
    [] t = "history"   ->
         { "id", "item_id", "employee_id", "created_at", "updated_at" }
    [] t = "tasks"     ->
         { "id", "task_id", "employee_id", "created_at", "updated_at" }
    [] t = "settings"  -> { "setting_key", "setting_value" }

\* .eq(col, val)
Eq(rows, col, val) == { r \in rows : col \in DOMAIN r /\ r[col] = val }

\* .single(): exactly one row, else an error and no data
Single(rows, error) ==
  IF error # NoError THEN [null |-> TRUE, data |-> <<>>, error |-> error]
  ELSE IF Cardinality(rows) = 1
       THEN [null |-> FALSE, data |-> CHOOSE r \in rows : TRUE,
             error |-> NoError]
       ELSE [null |-> TRUE, data |-> <<>>, error |-> NotSingle]


\* .order('created_at', { ascending: false }): every listing of the rows in
\* which created_at never increases; rows with equal created_at come in an
\* order the store does not fix
OrderDesc(rows) ==
  { s \in [1..Cardinality(rows) -> rows] :
      /\ \A i, j \in DOMAIN s : i # j => s[i] # s[j]
      /\ \A i, j \in DOMAIN s : i < j => s[i].created_at >= s[j].created_at }

\* .select('*') with the filters already applied
Select(rows, fault) ==
  IF fault # NoError THEN [null |-> TRUE, data |-> {}, error |-> fault]
  ELSE [null |-> FALSE, data |-> rows, error |-> NoError]

\* .insert([payload]).select().single()
Insert(t, rows, payload, fault) ==
  LET row == Spread([id |-> nextId[t]], payload)
      rejected ==
        IF fault # NoError THEN fault
        ELSE IF ~ (DOMAIN payload \subseteq Columns(t)) THEN NoColumn
        ELSE IF Eq(rows, "id", row.id) # {} THEN Duplicate
        ELSE IF /\ t = "tasks"
                /\ schema.taskIdUnique
                /\ Eq(rows, "task_id", row.task_id) # {} THEN Duplicate
        ELSE NoError
  IN  IF rejected # NoError
      THEN [rows |-> rows, ids |-> nextId, null |-> TRUE, data |-> <<>>,
            error |-> rejected]
      ELSE [rows |-> rows \cup { row },
            ids |-> [nextId EXCEPT ![t] = @ + 1],
            null |-> FALSE, data |-> row, error |-> NoError]

\* .update(payload).eq(col, val).select().single(); a result that is not
\* exactly one row is an error and the store rolls the update back
Update(t, rows, payload, col, val, fault) ==
  LET matched == Eq(rows, col, val)
      rejected ==
        IF fault # NoError THEN fault
        ELSE IF ~ (DOMAIN payload \subseteq Columns(t)) THEN NoColumn
        ELSE IF Cardinality(matched) # 1 THEN NotSingle
        ELSE NoError
  IN  IF rejected # NoError
      THEN [rows |-> rows, null |-> TRUE, data |-> <<>>, error |-> rejected]
      ELSE LET old == CHOOSE r \in matched : TRUE
               new == Spread(old, payload)
           IN  [rows |-> (rows \ { old }) \cup { new }, null |-> FALSE,
                data |-> new, error |-> NoError]

\* a delete that lost its filter
Delete_Unfiltered(rows, col, val, fault) ==
  IF fault # NoError THEN [rows |-> rows, error |-> fault]
  ELSE [rows |-> {}, error |-> NoError]

\* .delete().eq(col, val)
Delete(rows, col, val, fault) ==
  IF fault # NoError THEN [rows |-> rows, error |-> fault]
  ELSE [rows |-> rows \ Eq(rows, col, val), error |-> NoError]


\* .ilike(col, `%${query}%`): query occurs in the value, letter case ignored
ILike(rows, col, query) ==
  { r \in rows :
      /\ col \in DOMAIN r
      /\ \E i \in 1..(Len(r[col]) + 1) :
           /\ i + Len(query) - 1 <= Len(r[col])
           /\ SubSeq(toLowerCase(r[col]), i, i + Len(query) - 1)
                = toLowerCase(query) }

\* .limit(n) on rows the request does not order: any n of them, in any order
Limit(rows, n) ==
  LET k == IF Cardinality(rows) < n THEN Cardinality(rows) ELSE n
  IN  { s \in [1..k -> rows] : \A i, j \in DOMAIN s : i # j => s[i] # s[j] }

\* an upsert without conflict resolution: every call adds a row
Upsert_AlwaysInserts(t, rows, payload, col, fault) ==
  IF fault # NoError
  THEN [rows |-> rows, null |-> TRUE, data |-> <<>>, error |-> fault]
  ELSE LET row == Spread([id |-> Cardinality(rows) + 1], payload)
       IN  [rows |-> rows \cup { row }, null |-> FALSE, data |-> << row >>,
            error |-> NoError]

\* .upsert([payload], { onConflict: col }).select().limit(1)
Upsert(t, rows, payload, col, fault) ==
  LET matched == Eq(rows, col, payload[col])
      rejected ==
        IF fault # NoError THEN fault
        ELSE IF ~ (DOMAIN payload \subseteq Columns(t)) THEN NoColumn
        ELSE NoError
      row == IF matched = {} THEN payload
             ELSE Spread(CHOOSE r \in matched : TRUE, payload)
  IN  IF rejected # NoError
      THEN [rows |-> rows, null |-> TRUE, data |-> <<>>, error |-> rejected]
      ELSE [rows |-> (rows \ matched) \cup { row }, null |-> FALSE,
            data |-> << row >>, error |-> NoError]

(* -------------------------------- AUTH --------------------------------- *)

\* a login that lowercases the email but does not trim it
login_Untrimmed(email, password) ==
  \E fault \in MaybeFault :
    LET pinHash == hashPin(password)
        matched == Eq(Eq(employees, "email", toLowerCase(email)),
                      "pin_hash", pinHash)
        res     == Single(matched, fault)
    IN  /\ last' = Call("login", [email |-> email, password |-> password],
                        res.error,
                        IF res.error # NoError \/ res.null
                        THEN Throw("LOGIN_FAILED")
                        ELSE Return(res.data))
        /\ UNCHANGED <<stores, now, schema, focus>>

login(email, password) ==
  \E fault \in MaybeFault :
    LET pinHash == hashPin(password)
        matched == Eq(Eq(employees, "email", trim(toLowerCase(email))),
                      "pin_hash", pinHash)
        res     == Single(matched, fault)
    IN  /\ last' = Call("login", [email |-> email, password |-> password],
                        res.error,
                        IF res.error # NoError \/ res.null
                        THEN Throw("LOGIN_FAILED")
                        ELSE Return(res.data))
        /\ UNCHANGED <<stores, now, schema, focus>>



(* -------------------------------- ITEMS -------------------------------- *)

getItems ==
  \E fault \in MaybeFault :
    LET res == Select(items, fault)
    IN  \E listing \in OrderDesc(res.data) :
          /\ last' = Call("getItems", <<>>, res.error,
                          ThrowOr(res.error, listing))
          /\ UNCHANGED <<stores, now, schema, focus>>

searchItems(query) ==
  \E fault \in MaybeFault :
    LET res == Select(ILike(items, "name", query), fault)
    IN  /\ last' = Call("searchItems", query, res.error,
                        ThrowOr(res.error, res.data))
        /\ UNCHANGED <<stores, now, schema, focus>>

\* an addItem whose input fields override the stamps
addItem_InputWins(item) ==
  \E fault \in MaybeFault, updated \in LaterReads(now) :
    LET payload == Spread([created_at |-> now, updated_at |-> updated], item)
        res == Insert("items", items, payload, fault)
    IN  /\ nextId["items"] <= MaxRows
        /\ items' = res.rows
        /\ nextId' = res.ids
        /\ now' = updated
        /\ last' = Call("addItem", item, res.error,
                        ThrowOr(res.error, res.data))
        /\ UNCHANGED <<employees, history, tasks, settings, schema, focus>>

addItem(item) ==
  \E fault \in MaybeFault, updated \in LaterReads(now) :
    LET payload == Spread(item, [created_at |-> now, updated_at |-> updated])
        res == Insert("items", items, payload, fault)
    IN  /\ nextId["items"] <= MaxRows
        /\ items' = res.rows
        /\ nextId' = res.ids
        /\ now' = updated
        /\ last' = Call("addItem", item, res.error,
                        ThrowOr(res.error, res.data))
        /\ UNCHANGED <<employees, history, tasks, settings, schema, focus>>

updateItem(item) ==
  \E fault \in MaybeFault :
    LET payload == Spread(item, [updated_at |-> now])
        res == Update("items", items, payload, "id", item.id, fault)
    IN  /\ items' = res.rows
        /\ last' = Call("updateItem", item, res.error,
                        ThrowOr(res.error, res.data))
        /\ UNCHANGED <<employees, history, tasks, settings, nextId, now,
                       schema, focus>>

deleteItem(id) ==
  \E fault \in MaybeFault :
    LET res == Delete(items, "id", id, fault)
    IN  /\ items' = res.rows
        /\ last' = Call("deleteItem", id, res.error,
                        ThrowOr(res.error, Success))
        /\ UNCHANGED <<employees, history, tasks, settings, nextId, now,
                       schema, focus>>

(* ------------------------------ EMPLOYEES ------------------------------ *)

getEmployees ==
  \E fault \in MaybeFault :
    LET res == Select(employees, fault)
    IN  \E listing \in OrderDesc(res.data) :
          /\ last' = Call("getEmployees", <<>>, res.error,
                          ThrowOr(res.error, listing))
          /\ UNCHANGED <<stores, now, schema, focus>>

addEmployee(employee) ==
  \E fault \in MaybeFault, updated \in LaterReads(now) :
    LET payload == Spread(employee,
                     [pin_hash   |-> hashPin(Field(employee, "pin", "")),
                      created_at |-> now,
                      updated_at |-> updated])
        res == Insert("employees", employees, payload, fault)
    IN  /\ nextId["employees"] <= MaxRows
        /\ employees' = res.rows
        /\ nextId' = res.ids
        /\ now' = updated
        /\ last' = Call("addEmployee", employee, res.error,
                        ThrowOr(res.error, res.data))
        /\ UNCHANGED <<items, history, tasks, settings, schema, focus>>

\* an updateEmployee that hashes the pin whether or not the input has one
updateEmployee_AlwaysHashes(employee) ==
  \E fault \in MaybeFault :
    LET payload == Spread(employee,
                     [updated_at |-> now,
                      pin_hash   |-> hashPin(Field(employee, "pin", ""))])
        res == Update("employees", employees, payload, "id", employee.id,
                      fault)
    IN  /\ employees' = res.rows
        /\ last' = Call("updateEmployee", employee, res.error,
                        ThrowOr(res.error, res.data))
        /\ UNCHANGED <<items, history, tasks, settings, nextId, now, schema,
                       focus>>

updateEmployee(employee) ==
  \E fault \in MaybeFault :
    LET stamped == Spread(employee, [updated_at |-> now])
        payload == IF Field(employee, "pin", "") # ""
                   THEN Spread(stamped, [pin_hash |-> hashPin(employee.pin)])
                   ELSE stamped
        res == Update("employees", employees, payload, "id", employee.id,
                      fault)
    IN  /\ employees' = res.rows
        /\ last' = Call("updateEmployee", employee, res.error,
                        ThrowOr(res.error, res.data))
        /\ UNCHANGED <<items, history, tasks, settings, nextId, now, schema,
                       focus>>

deleteEmployee(id) ==
  \E fault \in MaybeFault :
    LET res == Delete(employees, "id", id, fault)
    IN  /\ employees' = res.rows
        /\ last' = Call("deleteEmployee", id, res.error,
                        ThrowOr(res.error, Success))
        /\ UNCHANGED <<items, history, tasks, settings, nextId, now, schema,
                       focus>>


(* ------------------------------- HISTORY ------------------------------- *)

getHistory(params) ==
  \E fault \in MaybeFault :
    LET byItem == IF "itemId" \in DOMAIN params
                  THEN Eq(history, "item_id", params.itemId)
                  ELSE history
        byBoth == IF "employeeId" \in DOMAIN params
                  THEN Eq(byItem, "employee_id", params.employeeId)
                  ELSE byItem
        res == Select(byBoth, fault)
    IN  \E listing \in OrderDesc(res.data) :
          /\ last' = Call("getHistory", params, res.error,
                          ThrowOr(res.error, listing))
          /\ UNCHANGED <<stores, now, schema, focus>>

updateHistory(record) ==
  \E fault \in MaybeFault :
    LET payload == Spread(record, [updated_at |-> now])
        res == Update("history", history, payload, "id", record.id, fault)
    IN  /\ history' = res.rows
        /\ last' = Call("updateHistory", record, res.error,
                        ThrowOr(res.error, res.data))
        /\ UNCHANGED <<employees, items, tasks, settings, nextId, now,
                       schema, focus>>

deleteHistory(id) ==
  \E fault \in MaybeFault :
    LET res == Delete(history, "id", id, fault)
    IN  /\ history' = res.rows
        /\ last' = Call("deleteHistory", id, res.error,
                        ThrowOr(res.error, Success))
        /\ UNCHANGED <<employees, items, tasks, settings, nextId, now,
                       schema, focus>>

(* -------------------------------- TASKS -------------------------------- *)

\* an addTask that keeps a task_id the input brings along
addTask_KeepsGivenId(taskData) ==
  \E fault \in MaybeFault, created \in LaterReads(now) :
    LET taskId == TaskId(now)
        payload == Spread([task_id |-> taskId, created_at |-> created],
                          taskData)
        res == Insert("tasks", tasks, payload, fault)
    IN  /\ nextId["tasks"] <= MaxRows
        /\ tasks' = res.rows
        /\ nextId' = res.ids
        /\ now' = created
        /\ last' = Call("addTask", taskData, res.error,
                        ThrowOr(res.error, res.data))
        /\ UNCHANGED <<employees, items, history, settings, schema, focus>>

addTask(taskData) ==
  \E fault \in MaybeFault, created \in LaterReads(now) :
    LET taskId == TaskId(now)
        payload == Spread(taskData,
                          [task_id |-> taskId, created_at |-> created])
        res == Insert("tasks", tasks, payload, fault)
    IN  /\ nextId["tasks"] <= MaxRows
        /\ tasks' = res.rows
        /\ nextId' = res.ids
        /\ now' = created
        /\ last' = Call("addTask", taskData, res.error,
                        ThrowOr(res.error, res.data))
        /\ UNCHANGED <<employees, items, history, settings, schema, focus>>

getTasks(employeeId) ==
  \E fault \in MaybeFault :
    LET res == Select(Eq(tasks, "employee_id", employeeId), fault)
    IN  \E listing \in OrderDesc(res.data) :
          /\ last' = Call("getTasks", employeeId, res.error,
                          ThrowOr(res.error, listing))
          /\ UNCHANGED <<stores, now, schema, focus>>

updateTask(taskData) ==
  \E fault \in MaybeFault :
    LET payload == Spread(taskData, [updated_at |-> now])
        res == Update("tasks", tasks, payload, "task_id", taskData.task_id,
                      fault)
    IN  /\ tasks' = res.rows
        /\ last' = Call("updateTask", taskData, res.error,
                        ThrowOr(res.error, res.data))
        /\ UNCHANGED <<employees, items, history, settings, nextId, now,
                       schema, focus>>

deleteTask(taskId) ==
  \E fault \in MaybeFault :
    LET res == Delete(tasks, "task_id", taskId, fault)
    IN  /\ tasks' = res.rows
        /\ last' = Call("deleteTask", taskId, res.error,
                        ThrowOr(res.error, Success))
        /\ UNCHANGED <<employees, items, history, settings, nextId, now,
                       schema, focus>>

(* ------------------------------- SETTINGS ------------------------------ *)

updateLowStockThreshold(threshold) ==
  \E fault \in MaybeFault :
    LET res == Upsert("settings", settings,
                      [setting_key   |-> LOW_STOCK_THRESHOLD,
                       setting_value |-> threshold],
                      "setting_key", fault)
    IN  /\ settings' = res.rows
        /\ last' = Call("updateLowStockThreshold", threshold, res.error,
                        ThrowOr(res.error, res.data[1]))
        /\ UNCHANGED <<employees, items, history, tasks, nextId, now, schema,
                       focus>>

\* a getLowStockThreshold that raises the store's error like the others
getLowStockThreshold_Raises ==
  \E fault \in MaybeFault :
    LET res == Select(Eq(settings, "setting_key", LOW_STOCK_THRESHOLD), fault)
    IN  \E data \in Limit(res.data, 1) :
          /\ last' = Call("getLowStockThreshold", <<>>, res.error,
                          IF res.error # NoError THEN Throw(res.error)
                          ELSE IF res.null \/ Len(data) = 0 THEN ReturnNull
                          ELSE Return(data[1]))
          /\ UNCHANGED <<stores, now, schema, focus>>

getLowStockThreshold ==
  \E fault \in MaybeFault :
    LET res == Select(Eq(settings, "setting_key", LOW_STOCK_THRESHOLD), fault)
    IN  \E data \in Limit(res.data, 1) :
          /\ last' = Call("getLowStockThreshold", <<>>, res.error,
                          IF res.error # NoError \/ res.null \/ Len(data) = 0
                          THEN ReturnNull
                          ELSE Return(data[1]))
          /\ UNCHANGED <<stores, now, schema, focus>>

(* ----------------------------- specification --------------------------- *)

NoCall == [op |-> "none"]

Init ==
  /\ employees = {}
  /\ items = {}
  /\ history = RecordedHistory
  /\ tasks = {}
  /\ settings = {}
  /\ nextId = [t \in Tables |-> 1]
  /\ now = 0
  /\ focus \in Tables
  /\ schema \in { s \in [pinColumn : BOOLEAN, taskIdUnique : BOOLEAN] :
                     /\ focus # "employees" => s.pinColumn
                     /\ focus # "tasks" => ~ s.taskIdUnique }
  /\ last = NoCall

Tick ==
  /\ now < MaxClock
  /\ now' = now + 1
  /\ last' = NoCall
  /\ UNCHANGED <<stores, schema, focus>>

NextEmployees ==
  \/ \E e \in LoginEmails, p \in Pins : login(e, p)
  \/ getEmployees
  \/ \E e \in NewEmployees : addEmployee(e)
  \/ \E e \in EmployeeUpdates : updateEmployee(e)
  \/ \E id \in Ids : deleteEmployee(id)

NextItems ==
  \/ getItems
  \/ \E q \in Queries : searchItems(q)
  \/ \E i \in NewItems : addItem(i)
  \/ \E i \in ItemUpdates : updateItem(i)
  \/ \E id \in Ids : deleteItem(id)

NextHistory ==
  \/ \E f \in HistoryFilters : getHistory(f)
  \/ \E h \in HistoryUpdates : updateHistory(h)
  \/ \E id \in Ids : deleteHistory(id)

NextTasks ==
  \/ \E t \in NewTasks : addTask(t)
  \/ \E e \in EmployeeIds : getTasks(e)
  \/ \E t \in TaskUpdates : updateTask(t)
  \/ \E id \in TaskIds : deleteTask(id)

NextSettings ==
  \/ \E th \in Thresholds : updateLowStockThreshold(th)
  \/ getLowStockThreshold

Next ==
  \/ Tick
  \/ focus = "employees" /\ NextEmployees
  \/ focus = "items" /\ NextItems
  \/ focus = "history" /\ NextHistory
  \/ focus = "tasks" /\ NextTasks
  \/ focus = "settings" /\ NextSettings

Spec == Init /\ [][Next]_vars

\* Every operation touches one table only, so the operations on one table are
\* also analysed on their own.
StepEmployees == Tick \/ NextEmployees

InitEmployees == Init /\ focus = "employees"

SpecEmployees == InitEmployees /\ [][StepEmployees]_vars

StepItems == Tick \/ NextItems

InitItems == Init /\ focus = "items"

SpecItems == InitItems /\ [][StepItems]_vars

StepTasks == Tick \/ NextTasks

InitTasks == Init /\ focus = "tasks"

SpecTasks == InitTasks /\ [][StepTasks]_vars

StepSettings == Tick \/ NextSettings

InitSettings == Init /\ focus = "settings"

SpecSettings == InitSettings /\ [][StepSettings]_vars

(* ================================ claims =============================== *)

Returned(call) == call.op # "none" /\ call.outcome.kind = "return"

\* the part of an email between its first and its last non-blank character
Core(e) ==
  LET solid == { i \in 1..Len(e) : e[i] # " " }
  IN  IF solid = {} THEN <<>>
      ELSE SubSeq(e, CHOOSE i \in solid : \A j \in solid : i <= j,
                     CHOOSE i \in solid : \A j \in solid : i >= j)

SameLetter(c, d) ==
  c = d \/ { c, d } = { "a", "A" } \/ { c, d } = { "b", "B" }

\* the two emails differ only in letter case or surrounding whitespace
SameEmail(e1, e2) ==
  /\ Len(Core(e1)) = Len(Core(e2))
  /\ \A i \in 1..Len(Core(e1)) : SameLetter(Core(e1)[i], Core(e2)[i])

\* C1: login returns row r exactly when r is the only employees row whose
\* email is the lowercased, trimmed input and whose pin_hash is the digest of
\* the password, and the store reported no error; in every other case it
\* raises LOGIN_FAILED.  Two consecutive logins whose emails differ only in
\* case or surrounding whitespace (same password, same store failure) have
\* the same outcome, and login leaves every table as it was.
C1_LoginExactlyOne ==
  [][ last'.op = "login" =>
        LET wanted == { r \in employees :
                          /\ r.email = trim(toLowerCase(last'.input.email))
                          /\ r.pin_hash = hashPin(last'.input.password) }
        IN  /\ UNCHANGED stores
            /\ IF last'.error \notin Faults /\ Cardinality(wanted) = 1
               THEN \E r \in wanted : last'.outcome = Return(r)
               ELSE last'.outcome = Throw("LOGIN_FAILED")
            /\ ( /\ last.op = "login"
                 /\ SameEmail(last.input.email, last'.input.email)
                 /\ last.input.password = last'.input.password
                 /\ (last.error \in Faults) = (last'.error \in Faults) )
               => last'.outcome = last.outcome
    ]_vars

\* a login typed with capitals and a trailing blank returned the employee
C1_Witness ==
  /\ last.op = "login"
  /\ last.outcome.kind = "return"
  /\ last.input.email = <<"A", " ">>
  /\ last.outcome.value.email = <<"a">>


KeyRows == { r \in settings : r.setting_key = LOW_STOCK_THRESHOLD }

C3_NoPlaintextPin == \A r \in employees : "pin" \notin DOMAIN r

\* C4 as stated: a getItems right after a successful addItem returns the
\* inserted row first.
C4_NewestFirst ==
  [][ ( /\ last.op = "addItem" /\ Returned(last)
        /\ last'.op = "getItems" /\ Returned(last') )
      => last'.outcome.value[1] = last.outcome.value
    ]_vars

\* C4, amended: addItem stamps the inserted row's created_at with the clock
\* it reads, whatever created_at the input carries; a getItems right after
\* it lists every row of the table with created_at never increasing, and the
\* inserted row comes first when every other row's created_at is strictly
\* smaller than the stamp.
C4_StampedAndOrdered ==
  [][ /\ (last'.op = "addItem" /\ Returned(last')) =>
           /\ last'.outcome.value.created_at = now
           /\ last'.outcome.value.name = last'.input.name
           /\ items' = items \cup { last'.outcome.value }
      /\ ( /\ last.op = "addItem" /\ Returned(last)
           /\ last'.op = "getItems" /\ Returned(last') ) =>
           LET listing == last'.outcome.value
               added   == last.outcome.value
           IN  /\ { listing[i] : i \in DOMAIN listing } = items
               /\ Len(listing) = Cardinality(items)
               /\ \A i, j \in DOMAIN listing :
                    i < j => listing[i].created_at >= listing[j].created_at
               /\ (\A r \in items \ { added } :
                     r.created_at < added.created_at) => listing[1] = added
    ]_vars

\* getItems lists the row inserted last before an older one
C4_Witness ==
  /\ last.op = "getItems"
  /\ last.outcome.kind = "return"
  /\ Len(last.outcome.value) = 2
  /\ last.outcome.value[1].id = nextId["items"] - 1
  /\ last.outcome.value[1].created_at > last.outcome.value[2].created_at

\* C5 as stated: a successful updateEmployee sets pin_hash to the digest of
\* the input's pin when the input carries a pin, and leaves pin_hash as it
\* was when the input carries none.
C5_HashOnlyWithPin ==
  [][ (last'.op = "updateEmployee" /\ Returned(last')) =>
        \A old \in employees :
          old.id = last'.input.id =>
            IF "pin" \in DOMAIN last'.input
            THEN last'.outcome.value.pin_hash = hashPin(last'.input.pin)
            ELSE last'.outcome.value.pin_hash = old.pin_hash
    ]_vars

\* C5, amended: a successful updateEmployee sets the pin_hash of the row
\* with the input's id to the digest of the input's pin when that pin is a
\* non-empty string; otherwise to the input's own pin_hash field when it has
\* one; otherwise pin_hash stays as it was.  No other row changes, and a
\* failed call changes nothing.
C5_HashFollowsInput ==
  [][ last'.op = "updateEmployee" =>
        IF Returned(last')
        THEN \A old \in employees :
               IF old.id = last'.input.id
               THEN /\ last'.outcome.value \in employees'
                    /\ last'.outcome.value.pin_hash =
                         IF "pin" \in DOMAIN last'.input
                            /\ last'.input.pin # ""
                         THEN hashPin(last'.input.pin)
                         ELSE IF "pin_hash" \in DOMAIN last'.input
                              THEN last'.input.pin_hash
                              ELSE old.pin_hash
               ELSE old \in employees'
        ELSE employees' = employees
    ]_vars

\* an update carrying a pin stored its digest
C5_Witness ==
  /\ last.op = "updateEmployee"
  /\ last.outcome.kind = "return"
  /\ "pin" \in DOMAIN last.input
  /\ last.input.pin = "1234"
  /\ last.outcome.value.pin_hash = hashPin("1234")
  /\ last.outcome.value \in employees

\* C6: every addTask names its task "TASK" followed by the millisecond value
\* it reads, whatever the input and the table hold, so two calls reading the
\* same value generate the same task_id; the insert of a second row with that
\* task_id succeeds unless the table enforces uniqueness, in which case it is
\* refused as a duplicate.
C6_TaskIdIsClock ==
  [][ last'.op = "addTask" =>
        LET id == "TASK" \o ToString(now)
        IN  /\ Returned(last') =>
                /\ last'.outcome.value.task_id = id
                /\ tasks' = tasks \cup { last'.outcome.value }
            /\ (last'.error = NoError /\ ~ schema.taskIdUnique) =>
                Returned(last')
            /\ last'.error = Duplicate =>
                \E r \in tasks : r.task_id = id
    ]_vars

\* two tasks inserted in the same millisecond share their task_id
C6_Witness ==
  \E r1, r2 \in tasks :
    /\ r1.id # r2.id
    /\ r1.task_id = r2.task_id
    /\ r1.created_at = r2.created_at

DeleteContract(op, key, before, after) ==
  last'.op = op =>
    /\ \A r \in before : r[key] # last'.input => r \in after
    /\ after \subseteq before
    /\ last'.error = NoError =>
         /\ last'.outcome = Return(Success)
         /\ \A r \in after : r[key] # last'.input
    /\ ( /\ last.op = op
         /\ last.input = last'.input
         /\ last.error = NoError
         /\ last'.error = NoError ) => after = before

\* C7: deleteTask, deleteItem, deleteEmployee and deleteHistory return
\* {success: true} whenever the store reports no error, whether or not a row
\* matched; afterwards no row with the key remains, rows with another key
\* are all still there, and repeating the call leaves the table unchanged.
C7_DeleteIdempotent ==
  [][ /\ DeleteContract("deleteTask", "task_id", tasks, tasks')
      /\ DeleteContract("deleteItem", "id", items, items')
      /\ DeleteContract("deleteEmployee", "id", employees, employees')
      /\ DeleteContract("deleteHistory", "id", history, history')
    ]_vars

\* deleting a task id that no row ever had reports success
C7_Witness ==
  /\ last.op = "deleteTask"
  /\ last.input = "TASK123"
  /\ last.outcome = Return(Success)
  /\ tasks # {}

\* C8: getLowStockThreshold never raises and never changes the settings
\* table; it returns null when the read reports an error or finds no row
\* for the key, and the stored row otherwise.
C8_ThresholdReadNeverRaises ==
  [][ last'.op = "getLowStockThreshold" =>
        /\ last'.outcome.kind # "throw"
        /\ UNCHANGED stores
        /\ IF last'.error # NoError \/ KeyRows = {}
           THEN last'.outcome = ReturnNull
           ELSE /\ last'.outcome.kind = "return"
                /\ last'.outcome.value \in KeyRows
    ]_vars

\* a failed read came back as null although the row exists
C8_Witness ==
  /\ last.op = "getLowStockThreshold"
  /\ last.error \in Faults
  /\ last.outcome = ReturnNull
  /\ KeyRows # {}

C10_AddThenLogin ==
  [][ ( /\ last.op = "addEmployee" /\ Returned(last)
        /\ "pin" \in DOMAIN last.input
        /\ last'.op = "login"
        /\ last'.input = [email    |-> last.input.email,
                          password |-> last.input.pin]
        /\ last'.error \notin Faults
        /\ \A r \in employees \ { last.outcome.value } :
             ~ ( /\ r.email = last.input.email
                 /\ r.pin_hash = last.outcome.value.pin_hash ) )
      => last'.outcome = Return(last.outcome.value)
    ]_vars

====
